---- MODULE Spec2Model ----
(***************************************************************************)
(* A model of app.py: the chat front end that relays one prompt per turn   *)
(* to a remote agent service, keeps one session token in a file, extracts  *)
(* the RootAgent answer from the reply, converts Markdown tables, detects  *)
(* embedded {x, y} points and appends the turn to the conversation.        *)
(*                                                                         *)
(* Strings of the program are sequences of one-character strings, so that  *)
(* strip, split and the regular expressions are computed character by      *)
(* character.  HTML tags written by the code are single elements.          *)
(***************************************************************************)
EXTENDS Integers, Sequences, FiniteSets, TLC

VARIABLES
    sessionFile,   \* the file SESSION_FILE: absent, or its content
    conversation,  \* the module-level list conversation
    net,           \* the HTTP requests of the last call of query_agent, in order
    out,           \* what the last call of query_agent returned or raised
    locals,        \* final_responses and final_text (before the table
                   \* conversion) of the last call that reached them
    turns          \* the number of calls of query_agent so far

vars == <<sessionFile, conversation, net, out, locals, turns>>

----------------------------------------------------------------------------
(* Bounds of the model. *)

\* calls of query_agent in one run of Spec
MaxTurns == 2

\* turn records in one reply, and parts in one turn record, in SpecPipeline
MaxRecords == 2
MaxParts == 1

----------------------------------------------------------------------------
(* Generic helpers on sequences of characters. *)

Min(S) == CHOOSE x \in S : \A y \in S : x <= y
Max(S) == CHOOSE x \in S : \A y \in S : x >= y

\* the whitespace of Python as far as the modelled alphabet goes
WS == {" ", "\n", "\t"}

\* str.strip(chars): drop the leading and trailing characters that are in cs
StripChars(s, cs) ==
    LET keep == {i \in 1..Len(s) : s[i] \notin cs}
    IN  IF keep = {} THEN <<>> ELSE SubSeq(s, Min(keep), Max(keep))

\* str.strip()
Strip(s) == StripChars(s, WS)

----------------------------------------------------------------------------
(* The session file and the remote service's responses. *)

NoFile == [exists |-> FALSE, content |-> <<>>]
File(c) == [exists |-> TRUE, content |-> c]

\* a response of requests.post: the call raised (exc), or a status and a body
ConnErr == [exc |-> TRUE, status |-> 0, json |-> FALSE, hasId |-> FALSE,
            id |-> <<>>, data |-> <<>>]
Plain(st) == [exc |-> FALSE, status |-> st, json |-> FALSE, hasId |-> FALSE,
              id |-> <<>>, data |-> <<>>]
JsonNoId(st) == [exc |-> FALSE, status |-> st, json |-> TRUE, hasId |-> FALSE,
                 id |-> <<>>, data |-> <<>>]
Created(st, sid) == [exc |-> FALSE, status |-> st, json |-> TRUE, hasId |-> TRUE,
                     id |-> sid, data |-> <<>>]
Ran(st, d) == [exc |-> FALSE, status |-> st, json |-> TRUE, hasId |-> FALSE,
               id |-> <<>>, data |-> d]

\* Response.raise_for_status(): raises for 4xx and 5xx
RaisesForStatus(resp) == resp.status >= 400 /\ resp.status < 600

Req(kind, sid, text, resp) == [req |-> kind, sid |-> sid, text |-> text, resp |-> resp]

----------------------------------------------------------------------------
(* Session management. *)

\* load_session: None when the file does not exist, else its stripped content
load_session(file) ==
    IF file.exists THEN [none |-> FALSE, s |-> Strip(file.content)]
    ELSE [none |-> TRUE, s |-> <<>>]

\* save_session: the file holds exactly session_id afterwards
save_session(session_id) == File(session_id)

\* the test of session_id: None and the empty string are falsy
Truthy(loaded) == ~loaded.none /\ Len(loaded.s) > 0

\* the verdict on the probe, resp.status_code == 200: an exception counts as invalid
ProbeAccepts(pingResp) == ~pingResp.exc /\ pingResp.status = 200

\* the create request: raise_for_status(), then resp.json()["id"]
CreateRaises(createResp) ==
    \/ createResp.exc
    \/ RaisesForStatus(createResp)
    \/ ~createResp.json
    \/ ~createResp.hasId

get_or_create_session_swallowing_create(file, pingResp, createResp) ==
    LET loaded == load_session(file)
        log0 == IF Truthy(loaded)
                THEN <<Req("ping", loaded.s, <<>>, pingResp)>> ELSE <<>>
        log1 == log0 \o <<Req("create", <<>>, <<>>, createResp)>>
    IN  IF Truthy(loaded) /\ ProbeAccepts(pingResp)
        THEN [raised |-> FALSE, err |-> "", session_id |-> loaded.s,
              file |-> file, reqs |-> log0]
        ELSE [raised |-> FALSE, err |-> "",
              session_id |-> createResp.id,
              file |-> save_session(createResp.id), reqs |-> log1]

get_or_create_session_unguarded_probe(file, pingResp, createResp) ==
    LET loaded == load_session(file)
        log0 == IF Truthy(loaded)
                THEN <<Req("ping", loaded.s, <<>>, pingResp)>> ELSE <<>>
        log1 == log0 \o <<Req("create", <<>>, <<>>, createResp)>>
    IN  IF Truthy(loaded) /\ pingResp.exc
        THEN [raised |-> TRUE, err |-> "ping", session_id |-> <<>>,
              file |-> file, reqs |-> log0]
        ELSE IF Truthy(loaded) /\ ProbeAccepts(pingResp)
        THEN [raised |-> FALSE, err |-> "", session_id |-> loaded.s,
              file |-> file, reqs |-> log0]
        ELSE IF CreateRaises(createResp)
        THEN [raised |-> TRUE, err |-> "create", session_id |-> <<>>,
              file |-> file, reqs |-> log1]
        ELSE [raised |-> FALSE, err |-> "", session_id |-> createResp.id,
              file |-> save_session(createResp.id), reqs |-> log1]

\* get_or_create_session: what it returns or raises, the file afterwards and
\* the requests it sent
get_or_create_session(file, pingResp, createResp) ==
    LET loaded == load_session(file)
        log0 == IF Truthy(loaded)
                THEN <<Req("ping", loaded.s, <<>>, pingResp)>> ELSE <<>>
        log1 == log0 \o <<Req("create", <<>>, <<>>, createResp)>>
    IN  IF Truthy(loaded) /\ ProbeAccepts(pingResp)
        THEN [raised |-> FALSE, err |-> "", session_id |-> loaded.s,
              file |-> file, reqs |-> log0]
        ELSE IF CreateRaises(createResp)
        THEN [raised |-> TRUE, err |-> "create", session_id |-> <<>>,
              file |-> file, reqs |-> log1]
        ELSE [raised |-> FALSE, err |-> "", session_id |-> createResp.id,
              file |-> save_session(createResp.id), reqs |-> log1]

----------------------------------------------------------------------------
(* Response extraction: query_agent, "Extract RootAgent response". *)

\* a missing key of a JSON object (dict.get returns None)
NoKey == "<absent>"

Part(hasText, text, name) == [hasText |-> hasText, text |-> text, name |-> name]
Item(author, parts) == [author |-> author, parts |-> parts]

\* the parts whose text the loop adds: author RootAgent, a "text" key, and a
\* name other than SemanticAgent
KeptPart(item, part) ==
    /\ item.author = "RootAgent"
    /\ part.hasText
    /\ part.name # "SemanticAgent"

root_responses_set_keeping_semantic(data) ==
    {data[ij[1]].parts[ij[2]].text : ij \in
        {ij \in UNION {{<<i, j>> : j \in 1..Len(data[i].parts)} : i \in 1..Len(data)} :
            /\ data[ij[1]].author = "RootAgent"
            /\ data[ij[1]].parts[ij[2]].hasText}}

\* root_responses_set after the loop over data
root_responses_set(data) ==
    {data[ij[1]].parts[ij[2]].text : ij \in
        {ij \in UNION {{<<i, j>> : j \in 1..Len(data[i].parts)} : i \in 1..Len(data)} :
            KeptPart(data[ij[1]], data[ij[1]].parts[ij[2]])}}

\* list(a_set): the elements once each, in an order the language leaves open
ListOfSet(S) ==
    {f \in [1..Cardinality(S) -> S] : \A i, j \in 1..Cardinality(S) : f[i] = f[j] => i = j}

RECURSIVE Join(_, _)
\* sep.join(list)
Join(list, sep) ==
    IF Len(list) = 0 THEN <<>>
    ELSE IF Len(list) = 1 THEN list[1]
    ELSE list[1] \o sep \o Join(Tail(list), sep)

Placeholder == <<"<i>", "No response from RootAgent", "</i>">>

ParagraphSep == <<"\n", "\n">>

\* final_text from final_responses
FinalText(final_responses) ==
    IF Len(final_responses) > 0 THEN Join(final_responses, ParagraphSep) ELSE Placeholder

----------------------------------------------------------------------------
(* Scanning helpers shared by the regular expressions. *)

\* the word w stands in s at index i
IsAt(s, i, w) ==
    /\ i >= 1
    /\ i + Len(w) - 1 <= Len(s)
    /\ \A k \in 1..Len(w) : s[i + k - 1] = w[k]

\* \s* from index i: the first index at or after i that holds no whitespace
SkipWs(s, i) ==
    LET stop == {k \in i..Len(s) : s[k] \notin WS}
    IN  IF stop = {} THEN Len(s) + 1 ELSE Min(stop)

\* the last index of the run of characters of cs that starts at index i
\* (i - 1 when s[i] is not in cs)
RunEnd(s, i, cs) ==
    LET stop == {k \in i..Len(s) : s[k] \notin cs}
    IN  IF stop = {} THEN Len(s) ELSE Min(stop) - 1

Digits == {"0", "1", "2", "3", "4", "5", "6", "7", "8", "9"}

----------------------------------------------------------------------------
(* json.loads, for the JSON the fenced block can hold: arrays, objects,    *)
(* strings without escapes, numbers without exponent, true/false/null.     *)

Val(t, lex, keys, items) == [t |-> t, lex |-> lex, keys |-> keys, items |-> items]
Num(lex) == Val("num", lex, <<>>, <<>>)
PFail == [ok |-> FALSE, v |-> Val("none", <<>>, <<>>, <<>>), next |-> 0]
POk(v, next) == [ok |-> TRUE, v |-> v, next |-> next]

\* the end of the number that starts at index i: -?(0|[1-9]\d*)(\.\d+)?
\* (0 when none starts there)
NumberEnd(s, i) ==
    LET p == IF IsAt(s, i, <<"-">>) THEN i + 1 ELSE i
        intEnd == IF p > Len(s) \/ s[p] \notin Digits THEN 0
                  ELSE IF s[p] = "0" THEN p
                  ELSE RunEnd(s, p, Digits)
    IN  IF intEnd = 0 THEN 0
        ELSE IF IsAt(s, intEnd + 1, <<".">>) /\ intEnd + 2 <= Len(s)
                /\ s[intEnd + 2] \in Digits
        THEN RunEnd(s, intEnd + 2, Digits)
        ELSE intEnd

\* the index of the quote that closes the string opened at index i (0 when
\* the string is not closed or holds a backslash or a control character)
StringEnd(s, i) ==
    LET close == {k \in (i + 1)..Len(s) : s[k] = "\""}
    IN  IF close = {} THEN 0
        ELSE IF \E k \in (i + 1)..(Min(close) - 1) : s[k] \in {"\\", "\n", "\t"}
        THEN 0
        ELSE Min(close)

RECURSIVE ParseValue(_, _)
RECURSIVE ParseElements(_, _, _)
RECURSIVE ParseMembers(_, _, _, _)

\* the elements of an array after "[" or ",": s, the index, the elements so far
ParseElements(s, i, acc) ==
    LET r == ParseValue(s, i)
        j == SkipWs(s, r.next)
    IN  IF ~r.ok \/ j > Len(s) THEN PFail
        ELSE IF s[j] = "," THEN ParseElements(s, j + 1, Append(acc, r.v))
        ELSE IF s[j] = "]" THEN POk(Val("arr", <<>>, <<>>, Append(acc, r.v)), j + 1)
        ELSE PFail

\* the members of an object after "{" or ","
ParseMembers(s, i, keys, items) ==
    LET k0 == SkipWs(s, i)
        k1 == IF k0 <= Len(s) /\ s[k0] = "\"" THEN StringEnd(s, k0) ELSE 0
        c == SkipWs(s, k1 + 1)
        r == ParseValue(s, c + 1)
        j == SkipWs(s, r.next)
    IN  IF k1 = 0 \/ c > Len(s) THEN PFail
        ELSE IF s[c] # ":" THEN PFail
        ELSE IF ~r.ok \/ j > Len(s) THEN PFail
        ELSE IF s[j] = ","
        THEN ParseMembers(s, j + 1, Append(keys, SubSeq(s, k0 + 1, k1 - 1)),
                          Append(items, r.v))
        ELSE IF s[j] = "}"
        THEN POk(Val("obj", <<>>, Append(keys, SubSeq(s, k0 + 1, k1 - 1)),
                     Append(items, r.v)), j + 1)
        ELSE PFail

\* one JSON value starting at or after index i
ParseValue(s, i) ==
    LET p == SkipWs(s, i)
    IN  IF p > Len(s) THEN PFail
        ELSE IF s[p] = "["
        THEN IF SkipWs(s, p + 1) <= Len(s) /\ s[SkipWs(s, p + 1)] = "]"
             THEN POk(Val("arr", <<>>, <<>>, <<>>), SkipWs(s, p + 1) + 1)
             ELSE ParseElements(s, p + 1, <<>>)
        ELSE IF s[p] = "{"
        THEN IF SkipWs(s, p + 1) <= Len(s) /\ s[SkipWs(s, p + 1)] = "}"
             THEN POk(Val("obj", <<>>, <<>>, <<>>), SkipWs(s, p + 1) + 1)
             ELSE ParseMembers(s, p + 1, <<>>, <<>>)
        ELSE IF s[p] = "\""
        THEN IF StringEnd(s, p) = 0 THEN PFail
             ELSE POk(Val("str", SubSeq(s, p + 1, StringEnd(s, p) - 1), <<>>, <<>>),
                      StringEnd(s, p) + 1)
        ELSE IF NumberEnd(s, p) # 0
        THEN POk(Num(SubSeq(s, p, NumberEnd(s, p))), NumberEnd(s, p) + 1)
        ELSE IF IsAt(s, p, <<"t", "r", "u", "e">>)
        THEN POk(Val("lit", SubSeq(s, p, p + 3), <<>>, <<>>), p + 4)
        ELSE IF IsAt(s, p, <<"n", "u", "l", "l">>)
        THEN POk(Val("lit", SubSeq(s, p, p + 3), <<>>, <<>>), p + 4)
        ELSE IF IsAt(s, p, <<"f", "a", "l", "s", "e">>)
        THEN POk(Val("lit", SubSeq(s, p, p + 4), <<>>, <<>>), p + 5)
        ELSE PFail

\* json.loads(s): the value, or a failure when s is not one JSON document
json_loads(s) ==
    LET r == ParseValue(s, 1)
    IN  IF r.ok /\ SkipWs(s, r.next) > Len(s) THEN r ELSE PFail

----------------------------------------------------------------------------
(* Graph detection: query_agent, "Detect if graph JSON exists". *)

\* the backquote character (a string of TLA+ cannot hold it)
Backquote == "BACKQUOTE"

Fence == <<Backquote, Backquote, Backquote>>

NoMatch == [found |-> FALSE, group1 |-> <<>>]

\* the pattern of re.search (a fence, an optional json tag, a bracketed group
\* matched lazily, a closing fence) tried at index i
FenceMatchAt(s, i) ==
    LET j == IF IsAt(s, i + 3, <<"j", "s", "o", "n">>) THEN i + 7 ELSE i + 3
        k == SkipWs(s, j)
        ends == {m \in (k + 1)..Len(s) :
                    s[m] = "]" /\ IsAt(s, SkipWs(s, m + 1), Fence)}
    IN  IF IsAt(s, i, Fence) /\ k <= Len(s) /\ s[k] = "[" /\ ends # {}
        THEN [found |-> TRUE, group1 |-> SubSeq(s, k, Min(ends))]
        ELSE NoMatch

\* re.search of the fence pattern: the leftmost match
code_block_match(s) ==
    LET starts == {i \in 1..Len(s) : FenceMatchAt(s, i).found}
    IN  IF starts = {} THEN NoMatch ELSE FenceMatchAt(s, Min(starts))

NumChars == Digits \cup {"."}

QuotedX == <<"\"", "x", "\"">>
QuotedY == <<"\"", "y", "\"">>

\* the loose pattern \{\s*"x"\s*:\s*([\d.]+)\s*,\s*"y"\s*:\s*([\d.]+)\s*\}
\* tried at index i
LooseMatchAt(s, i) ==
    LET a == SkipWs(s, i + 1)
        b == SkipWs(s, a + 3)
        x0 == SkipWs(s, b + 1)
        x1 == RunEnd(s, x0, NumChars)
        c == SkipWs(s, x1 + 1)
        d == SkipWs(s, c + 1)
        e == SkipWs(s, d + 3)
        y0 == SkipWs(s, e + 1)
        y1 == RunEnd(s, y0, NumChars)
        f == SkipWs(s, y1 + 1)
    IN  IF /\ IsAt(s, i, <<"{">>)
           /\ IsAt(s, a, QuotedX)
           /\ IsAt(s, b, <<":">>)
           /\ x1 >= x0
           /\ IsAt(s, c, <<",">>)
           /\ IsAt(s, d, QuotedY)
           /\ IsAt(s, e, <<":">>)
           /\ y1 >= y0
           /\ IsAt(s, f, <<"}">>)
        THEN [found |-> TRUE, x |-> SubSeq(s, x0, x1), y |-> SubSeq(s, y0, y1),
              end |-> f]
        ELSE [found |-> FALSE, x |-> <<>>, y |-> <<>>, end |-> 0]

RECURSIVE FindAllFrom(_, _)
\* re.findall of the loose pattern from index i on: the matches in order,
\* each search resuming after the match before it
FindAllFrom(s, i) ==
    LET starts == {k \in i..Len(s) : LooseMatchAt(s, k).found}
    IN  IF starts = {} THEN <<>>
        ELSE <<LooseMatchAt(s, Min(starts))>>
             \o FindAllFrom(s, LooseMatchAt(s, Min(starts)).end + 1)

\* float(lex) returns for a run of digits and dots with a digit and at most
\* one dot, and raises ValueError otherwise
FloatOk(lex) ==
    /\ \E k \in 1..Len(lex) : lex[k] \in Digits
    /\ Cardinality({k \in 1..Len(lex) : lex[k] = "."}) <= 1

PointOf(m) == Val("obj", <<>>, <<<<"x">>, <<"y">>>>, <<Num(m.x), Num(m.y)>>)

\* points_list when the try block reaches the test of points_list, or the exception
\* that float raised on the way
points_list_of(final_text) ==
    LET m == code_block_match(final_text)
        fenced == IF m.found THEN json_loads(m.group1) ELSE PFail
        fromFence == IF fenced.ok THEN fenced.v.items ELSE <<>>
        matches == FindAllFrom(final_text, 1)
    IN  IF Len(fromFence) > 0 THEN [raised |-> FALSE, points |-> fromFence]
        ELSE IF \E k \in 1..Len(matches) :
                    ~FloatOk(matches[k].x) \/ ~FloatOk(matches[k].y)
        THEN [raised |-> TRUE, points |-> <<>>]
        ELSE [raised |-> FALSE,
              points |-> [k \in 1..Len(matches) |-> PointOf(matches[k])]]

Fig(kind, x, y) == [kind |-> kind, x |-> x, y |-> y]
NoFig == Fig("none", <<>>, <<>>)
AnnotationFig == Fig("annotation", <<>>, <<>>)

\* subscripting p by key k succeeds: p is a dict that has the key
HasKey(p, k) == p.t = "obj" /\ \E i \in 1..Len(p.keys) : p.keys[i] = k

\* p[k]: the value of the last member named k
Lookup(p, k) == p.items[Max({i \in 1..Len(p.keys) : p.keys[i] = k})]

\* plot_graph_from_json: the figures it can return for graph_data["points"].
\* An element without an x or a y raises inside the try block and gives
\* the annotated error figure; px.scatter on values that are not numbers is
\* left to plotly and gives either figure.
plot_graph_from_json(points) ==
    IF Len(points) = 0 THEN {AnnotationFig}
    ELSE IF \E i \in 1..Len(points) :
                ~HasKey(points[i], <<"x">>) \/ ~HasKey(points[i], <<"y">>)
    THEN {AnnotationFig}
    ELSE IF \A i \in 1..Len(points) :
                /\ Lookup(points[i], <<"x">>).t = "num"
                /\ Lookup(points[i], <<"y">>).t = "num"
    THEN {Fig("scatter", [i \in 1..Len(points) |-> Lookup(points[i], <<"x">>)],
                         [i \in 1..Len(points) |-> Lookup(points[i], <<"y">>)])}
    ELSE {AnnotationFig,
          Fig("scatter", [i \in 1..Len(points) |-> Lookup(points[i], <<"x">>)],
                         [i \in 1..Len(points) |-> Lookup(points[i], <<"y">>)])}

\* fig after the try block of the graph detection
detect_graph(final_text) ==
    LET pl == points_list_of(final_text)
    IN  IF pl.raised \/ Len(pl.points) = 0 THEN {NoFig}
        ELSE plot_graph_from_json(pl.points)

----------------------------------------------------------------------------
(* Markdown tables: markdown_table_to_html and the re.sub that calls it. *)

\* the last index of the line that holds index i (i - 1 when s[i] is "\n")
LineLast(s, i) ==
    LET nl == {k \in i..Len(s) : s[k] = "\n"}
    IN  IF nl = {} THEN Len(s) ELSE Min(nl) - 1

RECURSIVE SplitLines(_)
\* str.splitlines()
SplitLines(s) ==
    IF Len(s) = 0 THEN <<>>
    ELSE <<SubSeq(s, 1, LineLast(s, 1))>>
         \o SplitLines(SubSeq(s, LineLast(s, 1) + 2, Len(s)))

DashChars == {"-", ":"}

RECURSIVE SeparatorGroups(_, _, _)
\* (\|[-:]+\s*)+ from index p on, greedily: where it stops and how many
\* groups it took
SeparatorGroups(line, p, n) ==
    IF IsAt(line, p, <<"|">>) /\ p + 1 <= Len(line) /\ line[p + 1] \in DashChars
    THEN SeparatorGroups(line, SkipWs(line, RunEnd(line, p + 1, DashChars) + 1), n + 1)
    ELSE [pos |-> p, n |-> n]

\* re.match(r"^\s*\|?\s*[-:]+\s*(\|[-:]+\s*)+\|?\s*$", line)
SeparatorOk(line) ==
    LET a == SkipWs(line, 1)
        b == IF IsAt(line, a, <<"|">>) THEN a + 1 ELSE a
        c == SkipWs(line, b)
        d == RunEnd(line, c, DashChars)
        g == SeparatorGroups(line, SkipWs(line, d + 1), 0)
        h == IF IsAt(line, g.pos, <<"|">>) THEN g.pos + 1 ELSE g.pos
    IN  d >= c /\ g.n >= 1 /\ SkipWs(line, h) > Len(line)

RECURSIVE SplitFrom(_, _)
\* re.split(r"\s*\|\s*", s) from index pos on: the text up to the leftmost
\* match (whitespace, a pipe, whitespace), then the split of the rest
SplitFrom(s, pos) ==
    LET starts == {p \in pos..Len(s) : IsAt(s, SkipWs(s, p), <<"|">>)}
    IN  IF starts = {} THEN <<SubSeq(s, pos, Len(s))>>
        ELSE <<SubSeq(s, pos, Min(starts) - 1)>>
             \o SplitFrom(s, SkipWs(s, SkipWs(s, Min(starts)) + 1))

\* the cells of one line: re.split(r"\s*\|\s*", line.strip("| "))
RowCells(line) == SplitFrom(StripChars(line, {"|", " "}), 1)

\* the opening tag, its border and style attributes left out
TableOpen == "<table>"

RECURSIVE CellsHtml(_, _, _)
CellsHtml(cells, open, close) ==
    IF Len(cells) = 0 THEN <<>>
    ELSE <<open>> \o cells[1] \o <<close>> \o CellsHtml(Tail(cells), open, close)

RowHtml(cells, open, close) ==
    <<"<tr>">> \o CellsHtml(cells, open, close) \o <<"</tr>", "\n">>

RECURSIVE BodyHtml(_)
BodyHtml(rows) ==
    IF Len(rows) = 0 THEN <<>>
    ELSE RowHtml(rows[1], "<td>", "</td>") \o BodyHtml(Tail(rows))

\* the markup of a table with the given header cells and body rows
TableHtml(header, rows) ==
    <<TableOpen, "\n">> \o RowHtml(header, "<th>", "</th>") \o BodyHtml(rows)
    \o <<"</table>">>

markdown_table_to_html(md_text) ==
    LET lines == SplitLines(Strip(md_text))
        rows == [k \in 1..Len(lines) |-> RowCells(lines[k])]
    IN  IF Len(lines) < 2 THEN md_text
        ELSE IF ~SeparatorOk(lines[2]) THEN md_text
        ELSE TableHtml(rows[1], SubSeq(rows, 3, Len(rows)))

SeparatorChars == {"-", ":", "|", " "}

RECURSIVE BodyEnd(_, _)
\* (?:\n\|.*\|)+ for the lines from index p (a line start) on, greedily: the
\* index of the last character matched, 0 when the line at p does not match
BodyEnd(s, p) ==
    LET l == LineLast(s, p)
        pipes == {k \in (p + 1)..l : s[k] = "|"}
    IN  IF p > Len(s) THEN 0
        ELSE IF s[p] # "|" \/ pipes = {} THEN 0
        ELSE IF Max(pipes) = l /\ l < Len(s) /\ BodyEnd(s, l + 2) # 0
        THEN BodyEnd(s, l + 2)
        ELSE Max(pipes)

\* the pattern (\|.+\|\n\|[-:| ]+\|(?:\n\|.*\|)+) tried at index i: the index
\* of the last character matched, 0 when there is no match
TableMatchAt(s, i) ==
    LET h == LineLast(s, i)
        sep == h + 2
        sepLast == LineLast(s, sep)
    IN  IF /\ s[i] = "|"
           /\ h >= i + 2
           /\ s[h] = "|"
           /\ sep <= Len(s)
           /\ s[sep] = "|"
           /\ sepLast >= sep + 2
           /\ s[sepLast] = "|"
           /\ \A k \in (sep + 1)..(sepLast - 1) : s[k] \in SeparatorChars
        THEN BodyEnd(s, sepLast + 2)
        ELSE 0

RECURSIVE ReSubFrom(_, _)
\* re.sub of the table pattern from index pos on: the text up to the leftmost
\* match is kept, the match is replaced, the search resumes after it
ReSubFrom(s, pos) ==
    LET starts == {i \in pos..Len(s) : TableMatchAt(s, i) # 0}
    IN  IF starts = {} THEN SubSeq(s, pos, Len(s))
        ELSE SubSeq(s, pos, Min(starts) - 1)
             \o markdown_table_to_html(SubSeq(s, Min(starts), TableMatchAt(s, Min(starts))))
             \o ReSubFrom(s, TableMatchAt(s, Min(starts)) + 1)

\* final_text after "Convert Markdown tables"
convert_tables(final_text) ==
    IF Len(final_text) > 0 THEN ReSubFrom(final_text, 1) ELSE final_text

----------------------------------------------------------------------------
(* query_agent. *)

Out(kind, err, chat, visible, fig) ==
    [kind |-> kind, err |-> err, chat |-> chat, visible |-> visible, fig |-> fig]

NoLocals == [final_responses |-> <<>>, final_text |-> <<>>]

\* the exception of get_or_create_session leaves query_agent
Raised(err) == Out("raised", err, <<>>, FALSE, NoFig)

\* the red error message, returned with graph_visibility (visible=False)
ErrorMessage == Out("error", "run", <<[role |-> "error", text |-> <<>>, time |-> ""]>>,
                    FALSE, NoFig)

\* the try block around the run request raises: the post itself,
\* raise_for_status() or resp.json()
RunRaises(runResp) ==
    runResp.exc \/ RaisesForStatus(runResp) \/ ~runResp.json

\* the requests to /run of one call: one post carrying session_id and the prompt
run_requests(session_id, prompt, runResp) ==
    <<Req("run", session_id, prompt, runResp)>>

append_to_chat_agent_first(conv, prompt, final_text, timestamp) ==
    conv \o <<[role |-> "agent", text |-> final_text, time |-> timestamp],
              [role |-> "user", text |-> prompt, time |-> timestamp]>>

\* "Append to chat": the user entry, then the agent entry, one timestamp
append_to_chat(conv, prompt, final_text, timestamp) ==
    conv \o <<[role |-> "user", text |-> prompt, time |-> timestamp],
              [role |-> "agent", text |-> final_text, time |-> timestamp]>>

conversation_on_run_error_keeping_prompt(conv, prompt, timestamp) ==
    Append(conv, [role |-> "user", text |-> prompt, time |-> timestamp])

\* the conversation when the except branch of the run request returns
conversation_on_run_error(conv, prompt, timestamp) == conv

\* "Render chat bubbles": one bubble per message, in the order of the list
render_chat(conv) ==
    [i \in 1..Len(conv) |->
        [role |-> conv[i].role, text |-> conv[i].text, time |-> conv[i].time]]

\* "Show or hide graph"
graph_update(chat, fig) ==
    IF fig = NoFig THEN Out("html", "", chat, FALSE, NoFig)
    ELSE Out("html", "", chat, TRUE, fig)

\* one call of query_agent(prompt), given what the service answers to the
\* requests the call sends and what the clock says
query_agent(prompt, pingResp, createResp, runResp, now) ==
    LET s == get_or_create_session(sessionFile, pingResp, createResp)
    IN  /\ turns' = turns + 1
        /\ sessionFile' = s.file
        /\ IF s.raised
           THEN /\ net' = s.reqs
                /\ out' = Raised(s.err)
                /\ UNCHANGED <<conversation, locals>>
           ELSE /\ net' = s.reqs \o run_requests(s.session_id, prompt, runResp)
                /\ IF RunRaises(runResp)
                   THEN /\ out' = ErrorMessage
                        /\ conversation' = conversation_on_run_error(conversation, prompt, now)
                        /\ UNCHANGED locals
                   ELSE \E final_responses \in ListOfSet(root_responses_set(runResp.data)) :
                        \E fig \in detect_graph(FinalText(final_responses)) :
                            /\ locals' = [final_responses |-> final_responses,
                                          final_text |-> FinalText(final_responses)]
                            /\ conversation' =
                                  append_to_chat(conversation, prompt,
                                      convert_tables(FinalText(final_responses)), now)
                            /\ out' = graph_update(render_chat(conversation'), fig)

----------------------------------------------------------------------------
(* The texts the agent answers with. *)

\* the example of the table conversion: | a | b |\n|---|---|\n| 1 | 2 |
TxtTable ==
    <<"|", " ", "a", " ", "|", " ", "b", " ", "|", "\n", "|", "-", "-",
      "-", "|", "-", "-", "-", "|", "\n", "|", " ", "1", " ", "|", " ",
      "2", " ", "|">>

\* a separator with spaces after its pipes: | a | b |\n| --- | --- |\n| 1 | 2 |
TxtTableSpaced ==
    <<"|", " ", "a", " ", "|", " ", "b", " ", "|", "\n", "|", " ", "-",
      "-", "-", " ", "|", " ", "-", "-", "-", " ", "|", "\n", "|", " ",
      "1", " ", "|", " ", "2", " ", "|">>

\* a table of one column: |a|\n|-|\n|1|
TxtTableOneColumn ==
    <<"|", "a", "|", "\n", "|", "-", "|", "\n", "|", "1", "|">>

\* a body row whose first cell is empty: |a|b|\n|-|-|\n| |2|\n|3|4|
TxtTableEmptyEdge ==
    <<"|", "a", "|", "b", "|", "\n", "|", "-", "|", "-", "|", "\n", "|",
      " ", "|", "2", "|", "\n", "|", "3", "|", "4", "|">>

\* alignment colons and two body rows: |a|b|\n|:-|-:|\n|1|2|\n|3|4|
TxtTableTwoRows ==
    <<"|", "a", "|", "b", "|", "\n", "|", ":", "-", "|", "-", ":", "|",
      "\n", "|", "1", "|", "2", "|", "\n", "|", "3", "|", "4", "|">>

\* a body row with an empty cell in the middle: |a|b|c|\n|-|-|-|\n|1||3|
TxtTableEmptyMiddle ==
    <<"|", "a", "|", "b", "|", "c", "|", "\n", "|", "-", "|", "-", "|",
      "-", "|", "\n", "|", "1", "|", "|", "3", "|">>

\* pipes without a separator line: a | b\nc | d
TxtPipes ==
    <<"a", " ", "|", " ", "b", "\n", "c", " ", "|", " ", "d">>

\* a table between two lines of text: x\n|a|b|\n|-|-|\n|1|2|\nend
TxtTableInText ==
    <<"x", "\n", "|", "a", "|", "b", "|", "\n", "|", "-", "|", "-", "|",
      "\n", "|", "1", "|", "2", "|", "\n", "e", "n", "d">>

\* the example of the graph extraction: '''json\n[{"x":1,"y":2},{"x":3,"y":4}]\n'''
TxtGraph ==
    <<Backquote, Backquote, Backquote, "j", "s", "o", "n", "\n", "[", "{",
      "\"", "x", "\"", ":", "1", ",", "\"", "y", "\"", ":", "2", "}", ",",
      "{", "\"", "x", "\"", ":", "3", ",", "\"", "y", "\"", ":", "4", "}",
      "]", "\n", Backquote, Backquote, Backquote>>

\* a fenced array of numbers: '''json\n[1]\n'''
TxtGraphNumbers ==
    <<Backquote, Backquote, Backquote, "j", "s", "o", "n", "\n", "[", "1",
      "]", "\n", Backquote, Backquote, Backquote>>

\* a fenced point without y: '''json\n[{"x":1}]\n'''
TxtGraphPartial ==
    <<Backquote, Backquote, Backquote, "j", "s", "o", "n", "\n", "[", "{",
      "\"", "x", "\"", ":", "1", "}", "]", "\n", Backquote, Backquote,
      Backquote>>

\* a fenced array that does not parse, holding one point: '''json\n[{"x":1,"y":2},]\n'''
TxtGraphTrailingComma ==
    <<Backquote, Backquote, Backquote, "j", "s", "o", "n", "\n", "[", "{",
      "\"", "x", "\"", ":", "1", ",", "\"", "y", "\"", ":", "2", "}", ",",
      "]", "\n", Backquote, Backquote, Backquote>>

\* two loose points: {"x":1.5,"y":2} {"x":3,"y":4}
TxtGraphLoose ==
    <<"{", "\"", "x", "\"", ":", "1", ".", "5", ",", "\"", "y", "\"", ":",
      "2", "}", " ", "{", "\"", "x", "\"", ":", "3", ",", "\"", "y", "\"",
      ":", "4", "}">>

\* a loose point whose x is no number: {"x":1.2.3,"y":1}
TxtGraphBadFloat ==
    <<"{", "\"", "x", "\"", ":", "1", ".", "2", ".", "3", ",", "\"", "y",
      "\"", ":", "1", "}">>

\* a fenced point whose x is a string: '''json\n[{"x":"a","y":2}]\n'''
TxtGraphString ==
    <<Backquote, Backquote, Backquote, "j", "s", "o", "n", "\n", "[", "{",
      "\"", "x", "\"", ":", "\"", "a", "\"", ",", "\"", "y", "\"", ":",
      "2", "}", "]", "\n", Backquote, Backquote, Backquote>>

\* a fenced array that does not parse: '''json\n[oops]\n'''
TxtGraphGarbage ==
    <<Backquote, Backquote, Backquote, "j", "s", "o", "n", "\n", "[", "o",
      "o", "p", "s", "]", "\n", Backquote, Backquote, Backquote>>

\* an empty fenced array before a loose point: '''\n[]\n''' {"x":7,"y":8}
TxtGraphEmpty ==
    <<Backquote, Backquote, Backquote, "\n", "[", "]", "\n", Backquote,
      Backquote, Backquote, " ", "{", "\"", "x", "\"", ":", "7", ",", "\"",
      "y", "\"", ":", "8", "}">>

TxtA == <<"A">>
TxtB == <<"B">>

SampleTexts ==
    {TxtTable,
     TxtTableSpaced,
     TxtTableOneColumn,
     TxtTableEmptyEdge,
     TxtTableTwoRows,
     TxtTableEmptyMiddle,
     TxtPipes,
     TxtTableInText,
     TxtGraph,
     TxtGraphNumbers,
     TxtGraphPartial,
     TxtGraphTrailingComma,
     TxtGraphLoose,
     TxtGraphBadFloat,
     TxtGraphString,
     TxtGraphGarbage,
     TxtGraphEmpty}

----------------------------------------------------------------------------
(* The environment: prompts, the clock, the service's answers. *)

Prompts == {<<"h", "i">>}

\* datetime.now().strftime("%H:%M")
Times == {"09:00", "09:01"}

\* session ids the service hands out; the last one ends with a newline
Ids == {<<"a">>, <<"b">>, <<"b", "\n">>}

\* the session file when the process starts: none, a blank one, one written
\* by an earlier run
InitialFiles == {NoFile, File(<<"\n">>), File(<<"a">>)}

PingResps == {ConnErr, Plain(200), Plain(204), Plain(404)}

CreateResps == {ConnErr, JsonNoId(500)} \cup {Created(200, sid) : sid \in Ids}

\* a reply with the one RootAgent part t
Reply(t) == <<Item("RootAgent", <<Part(TRUE, t, NoKey)>>)>>

\* the replies of Spec
Bodies == {<<>>, Reply(TxtA), Reply(TxtGraph)}

RunResps(bodies) ==
    {ConnErr, Plain(500), Plain(200)} \cup {Ran(200, d) : d \in bodies}

\* sequences over S of length at most n
SeqUpTo(S, n) == UNION {[1..k -> S] : k \in 0..n}

PartChoices ==
    {Part(TRUE, TxtA, NoKey), Part(TRUE, TxtB, NoKey),
     Part(TRUE, TxtA, "SemanticAgent"), Part(FALSE, <<>>, NoKey)}

ItemChoices ==
    {Item(a, ps) : a \in {"RootAgent", "SubAgent"}, ps \in SeqUpTo(PartChoices, MaxParts)}

\* the replies of SpecPipeline: every list of turn records within the
\* bounds, and every sample text as the one part of a RootAgent record
PipelineBodies ==
    SeqUpTo(ItemChoices, MaxRecords) \cup {Reply(t) : t \in SampleTexts}

----------------------------------------------------------------------------
(* Specifications. *)

InitCommon ==
    /\ conversation = <<>>
    /\ net = <<>>
    /\ out = Out("idle", "", <<>>, FALSE, NoFig)
    /\ locals = NoLocals
    /\ turns = 0

Init ==
    /\ sessionFile \in InitialFiles
    /\ InitCommon

\* a turn: the user sends a prompt, the service answers each request
Turn ==
    /\ turns < MaxTurns
    /\ \E prompt \in Prompts, pingResp \in PingResps, createResp \in CreateResps,
          runResp \in RunResps(Bodies), now \in Times :
          query_agent(prompt, pingResp, createResp, runResp, now)

Next == Turn

Spec == Init /\ [][Next]_vars

\* One turn over every reply of PipelineBodies, the session file as the
\* process may find it, the service accepting the probe and the create
\* request.
PipelineTurn ==
    /\ turns = 0
    /\ \E prompt \in Prompts, d \in PipelineBodies, now \in Times :
          query_agent(prompt, Plain(200), Created(200, <<"a">>), Ran(200, d), now)

NextPipeline == PipelineTurn

SpecPipeline == Init /\ [][NextPipeline]_vars

----------------------------------------------------------------------------
(* Vocabulary of the claims. *)

\* the requests of one kind among the requests n of a call
ReqsOf(n, kind) == SelectSeq(n, LAMBDA r : r.req = kind)

\* a response with a 2xx status
Is2xx(resp) == ~resp.exc /\ resp.status >= 200 /\ resp.status < 300

\* a response that is a transport error or carries a non-success status
Failed(resp) == resp.exc \/ resp.status < 200 \/ resp.status >= 300

\* this step is a call of query_agent
TurnTaken == turns' = turns + 1

\* the reply to the run request of the last call
RunData == ReqsOf(net, "run")[1].resp.data

\* the last entry of the conversation
LastEntry == conversation[Len(conversation)]

----------------------------------------------------------------------------
(* C1: whenever the run request of a turn fails (connection error or       *)
(* non-success status), query_agent returns one error message with the     *)
(* graph hidden, has sent the run request exactly once, and the            *)
(* conversation is what it was before the turn.                            *)

----------------------------------------------------------------------------
(* C3, as the claim states it: when a token is persisted and the probe     *)
(* answers with any 2xx status, get_or_create_session returns the          *)
(* persisted token, sends no create request and leaves the file as it was. *)

C3_Any2xxProbeReusesToken ==
    [][(/\ TurnTaken
        /\ Len(ReqsOf(net', "ping")) > 0
        /\ Is2xx(ReqsOf(net', "ping")[1].resp))
       => (/\ Len(ReqsOf(net', "create")) = 0
           /\ sessionFile' = sessionFile
           /\ out'.kind # "raised"
           /\ ReqsOf(net', "run")[1].sid = load_session(sessionFile).s)]_vars

----------------------------------------------------------------------------
(* C4: when a token is persisted and the probe raises or answers with a    *)
(* non-success status, get_or_create_session sends exactly one create      *)
(* request, never surfaces the failure of the probe, and, given the id the *)
(* create request returns, writes that id to the file and returns it (it   *)
(* is the session id of the run request).                                  *)

C4_FailedProbeRecreatesSession ==
    [][(/\ TurnTaken
        /\ Len(ReqsOf(net', "ping")) > 0
        /\ Failed(ReqsOf(net', "ping")[1].resp))
       => (/\ Len(ReqsOf(net', "ping")) = 1
           /\ Len(ReqsOf(net', "create")) = 1
           /\ out'.err # "ping"
           /\ (/\ Is2xx(ReqsOf(net', "create")[1].resp)
               /\ ReqsOf(net', "create")[1].resp.hasId)
              => (/\ sessionFile' = File(ReqsOf(net', "create")[1].resp.id)
                  /\ out'.kind # "raised"
                  /\ ReqsOf(net', "run")[1].sid
                        = ReqsOf(net', "create")[1].resp.id))]_vars

\* the probe of a persisted token raised, and the file now holds the id of
\* the create request, another one than the token probed
C4_Witness ==
    /\ Len(ReqsOf(net, "ping")) = 1
    /\ ReqsOf(net, "ping")[1].resp.exc
    /\ Len(ReqsOf(net, "create")) = 1
    /\ sessionFile = File(ReqsOf(net, "create")[1].resp.id)
    /\ ReqsOf(net, "create")[1].resp.id # ReqsOf(net, "ping")[1].sid
    /\ out.kind = "html"

----------------------------------------------------------------------------
(* C5, as the claim states it: when no token is persisted,                  *)
(* get_or_create_session sends exactly one create request and no probe,    *)
(* writes the returned id to the file and returns it, and load_session     *)
(* then returns that same id.                                              *)

C5_CreatedIdIsLoadedBack ==
    [][(TurnTaken /\ ~Truthy(load_session(sessionFile)))
       => (/\ Len(ReqsOf(net', "ping")) = 0
           /\ Len(ReqsOf(net', "create")) = 1
           /\ (/\ Is2xx(ReqsOf(net', "create")[1].resp)
               /\ ReqsOf(net', "create")[1].resp.hasId)
              => (/\ sessionFile' = File(ReqsOf(net', "create")[1].resp.id)
                  /\ ReqsOf(net', "run")[1].sid = ReqsOf(net', "create")[1].resp.id
                  /\ ~load_session(sessionFile').none
                  /\ load_session(sessionFile').s
                        = ReqsOf(net', "create")[1].resp.id))]_vars

----------------------------------------------------------------------------
(* C6: the conversation is append-only: every step keeps the entries it    *)
(* had, in place; a turn that succeeds appends exactly two entries, the    *)
(* user entry with the prompt and then the agent entry, both with one      *)
(* timestamp; no other turn changes the conversation.                      *)

C6_ConversationAppendOnly ==
    [][/\ Len(conversation') >= Len(conversation)
       /\ SubSeq(conversation', 1, Len(conversation)) = conversation
       /\ (TurnTaken /\ out'.kind = "html")
          => (/\ Len(conversation') = Len(conversation) + 2
              /\ conversation'[Len(conversation) + 1].role = "user"
              /\ conversation'[Len(conversation) + 1].text
                    = ReqsOf(net', "run")[1].text
              /\ conversation'[Len(conversation) + 2].role = "agent"
              /\ conversation'[Len(conversation) + 1].time
                    = conversation'[Len(conversation) + 2].time)
       /\ (TurnTaken /\ out'.kind # "html") => conversation' = conversation]_vars

\* two successful turns at different minutes
C6_Witness ==
    /\ Len(conversation) = 4
    /\ out.kind = "html"
    /\ conversation[1].time # conversation[3].time
    /\ conversation[2].text # conversation[4].text

----------------------------------------------------------------------------
(* C10: when the create request fails (transport error or non-success      *)
(* status), query_agent ends with the exception and no error message, has  *)
(* sent no run request, and leaves the session file and the conversation   *)
(* as they were.                                                           *)

----------------------------------------------------------------------------
(* Vocabulary of the claims about the reply. *)

\* part j of record i of the reply d is kept: its record is authored by
\* RootAgent, it has a text, and its name is not SemanticAgent
Kept(d, i, j) ==
    /\ d[i].author = "RootAgent"
    /\ d[i].parts[j].hasText
    /\ d[i].parts[j].name # "SemanticAgent"

RECURSIVE KeptTextsOfParts(_, _, _)
\* the texts of the kept parts of record i from part j on, in order
KeptTextsOfParts(d, i, j) ==
    IF j > Len(d[i].parts) THEN <<>>
    ELSE (IF Kept(d, i, j) THEN <<d[i].parts[j].text>> ELSE <<>>)
         \o KeptTextsOfParts(d, i, j + 1)

RECURSIVE KeptTextsFrom(_, _)
\* the texts of the kept parts from record i on: records in order, parts in
\* order within a record
KeptTextsFrom(d, i) ==
    IF i > Len(d) THEN <<>>
    ELSE KeptTextsOfParts(d, i, 1) \o KeptTextsFrom(d, i + 1)

RECURSIVE FirstSeen(_, _)
\* the list without the elements already in acc or earlier in the list
FirstSeen(list, acc) ==
    IF Len(list) = 0 THEN acc
    ELSE IF \E k \in 1..Len(acc) : acc[k] = list[1] THEN FirstSeen(Tail(list), acc)
    ELSE FirstSeen(Tail(list), Append(acc, list[1]))

----------------------------------------------------------------------------
(* C2, as the claim states it: the answer text is the texts of the kept    *)
(* parts, deduplicated by string equality and joined in first-seen order   *)
(* (records in order, parts in order within a record).                     *)

C2_AnswerInFirstSeenOrder ==
    (out.kind = "html" /\ Len(KeptTextsFrom(RunData, 1)) > 0)
    => locals.final_text = Join(FirstSeen(KeptTextsFrom(RunData, 1), <<>>), ParagraphSep)

----------------------------------------------------------------------------
(* C9: every paragraph of the extracted answer is the text of a part that  *)
(* has a name other than SemanticAgent and belongs to a record authored by *)
(* RootAgent, every such text is a paragraph exactly once, and with no     *)
(* such part the answer is the placeholder text.                           *)

C9_OnlyKeptPartsAnswer ==
    out.kind = "html"
    => /\ \A k \in 1..Len(locals.final_responses) :
            \E i \in 1..Len(RunData) : \E j \in 1..Len(RunData[i].parts) :
                /\ Kept(RunData, i, j)
                /\ RunData[i].parts[j].text = locals.final_responses[k]
       /\ \A i \in 1..Len(RunData) : \A j \in 1..Len(RunData[i].parts) :
            Kept(RunData, i, j)
            => Cardinality({k \in 1..Len(locals.final_responses) :
                    locals.final_responses[k] = RunData[i].parts[j].text}) = 1
       /\ locals.final_text = FinalText(locals.final_responses)
       /\ (\A i \in 1..Len(RunData) : \A j \in 1..Len(RunData[i].parts) :
                ~Kept(RunData, i, j))
          => (locals.final_text = Placeholder /\ LastEntry.text = Placeholder)

\* a RootAgent record whose part is named SemanticAgent and a record of
\* another author that has a text: neither text is in the answer, which is
\* the placeholder
C9_Witness ==
    /\ out.kind = "html"
    /\ \E i \in 1..Len(RunData) : \E j \in 1..Len(RunData[i].parts) :
          /\ RunData[i].author = "RootAgent"
          /\ RunData[i].parts[j].hasText
          /\ RunData[i].parts[j].name = "SemanticAgent"
    /\ \E i \in 1..Len(RunData) : \E j \in 1..Len(RunData[i].parts) :
          /\ RunData[i].author # "RootAgent"
          /\ RunData[i].parts[j].hasText
          /\ RunData[i].parts[j].name # "SemanticAgent"
    /\ Len(locals.final_responses) = 0
    /\ LastEntry.text = Placeholder

----------------------------------------------------------------------------
(* C7, as the claim states it: a text that is one table region (a          *)
(* pipe-delimited header line, a line of dashes, colons, pipes and spaces, *)
(* N >= 1 pipe-delimited body lines) is replaced by a table of one header  *)
(* row and N body rows, every cell, empty ones included, in its place.     *)

RECURSIVE SplitOnPipes(_, _)
\* s from index pos on, cut at every pipe
SplitOnPipes(s, pos) ==
    LET pipes == {k \in pos..Len(s) : s[k] = "|"}
    IN  IF pipes = {} THEN <<SubSeq(s, pos, Len(s))>>
        ELSE <<SubSeq(s, pos, Min(pipes) - 1)>> \o SplitOnPipes(s, Min(pipes) + 1)

\* the cells of a pipe-delimited line: what stands between its pipes, the
\* pipe that opens the line and the one that closes it set aside
CellsOfLine(line) ==
    LET t == Strip(line)
        cells == SplitOnPipes(SubSeq(t, 2, Len(t) - 1), 1)
    IN  [k \in 1..Len(cells) |-> Strip(cells[k])]

\* the whole text is one region of the table pattern
IsTableRegion(text) == Len(text) > 0 /\ TableMatchAt(text, 1) = Len(text)

C7_TableRegionBecomesTable ==
    (out.kind = "html" /\ IsTableRegion(locals.final_text))
    => LET lines == SplitLines(locals.final_text)
       IN  LastEntry.text =
              TableHtml(CellsOfLine(lines[1]),
                        [k \in 1..(Len(lines) - 2) |-> CellsOfLine(lines[k + 2])])

----------------------------------------------------------------------------
(* C8, as the claim states it: the chart is shown only when the dataset    *)
(* holds at least one point and every point has a numeric x and y; when    *)
(* the fenced array does not parse, or parses to elements that are not     *)
(* {x, y} objects, the chart is hidden; and the turn appends the answer    *)
(* text and renders it.                                                    *)

\* the fenced array of the text does not parse, or an element of it is not
\* an object with x and y
FencedDataMalformed(text) ==
    /\ code_block_match(text).found
    /\ \/ ~json_loads(code_block_match(text).group1).ok
       \/ \E k \in 1..Len(json_loads(code_block_match(text).group1).v.items) :
            LET p == json_loads(code_block_match(text).group1).v.items[k]
            IN  ~HasKey(p, <<"x">>) \/ ~HasKey(p, <<"y">>)

C8_ChartOnlyForCompletePoints ==
    out.kind = "html"
    => /\ out.visible
          => (/\ out.fig.kind = "scatter"
              /\ Len(out.fig.x) >= 1
              /\ \A k \in 1..Len(out.fig.x) :
                    out.fig.x[k].t = "num" /\ out.fig.y[k].t = "num")
       /\ FencedDataMalformed(locals.final_text) => ~out.visible
       /\ LastEntry.role = "agent"
       /\ LastEntry.text = convert_tables(locals.final_text)
       /\ out.chat = render_chat(conversation)

====
